---- MODULE Spec2Model ----
(***************************************************************************)
(* State-machine model of app.py (voice catalog + upload folder + match).  *)
(*                                                                         *)
(* Strings are sequences of one-character strings, so that basename,       *)
(* lower(), endswith(), Path.stem / Path.suffix, glob matching and sorted()*)
(* are computed the way the Python code computes them.                     *)
(*                                                                         *)
(* The file system is a record: files, a function from absolute path to    *)
(* file content, and dirs, the set of the directories below the upload     *)
(* folder.  A content of 0 is a file librosa cannot turn into a            *)
(* fingerprint; a content n > 0 is a decodable recording whose MFCC mean   *)
(* is the point n, so the L2 distance of two recordings is |n - m|.        *)
(*                                                                         *)
(* A script run is two steps: Begin, the sync at the head of the script,   *)
(* after which the run sleeps, and the step of the button that was         *)
(* pressed.  The upload folder can change from outside between the two.    *)
(* st.rerun() makes the next run start by itself, with no button pressed.  *)
(***************************************************************************)
EXTENDS Integers, Sequences, FiniteSets, TLC

VARIABLES fs, catalog, pc, last

vars == <<fs, catalog, pc, last>>

----------------------------------------------------------------------------
(* Bounds of the model *)

\* most distinct paths known to the file system and the catalog together
MaxPaths == 2
\* most items in one upload batch
MaxBatch == 2
\* contents range over 0..MaxContent
MaxContent == 3
\* top_k ranges over 1..MaxTopK
MaxTopK == 2

----------------------------------------------------------------------------
(* With(v, F) is F(v): it names a value that is used several times, the way *)
(* a local variable of the Python code does.                                *)

With(v, F(_)) == F(v)

----------------------------------------------------------------------------
(* Characters and strings *)

\* the characters in ASCII order
Alphabet ==
  << " ", "%", ".", "/",
     "0", "1", "2", "3", "4", "5", "6", "7", "8", "9",
     "A", "B", "C", "D", "E", "F", "G", "H", "I", "J", "K", "L", "M",
     "N", "O", "P", "Q", "R", "S", "T", "U", "V", "W", "X", "Y", "Z",
     "_",
     "a", "b", "c", "d", "e", "f", "g", "h", "i", "j", "k", "l", "m",
     "n", "o", "p", "q", "r", "s", "t", "u", "v", "w", "x", "y", "z" >>

Chars == {Alphabet[i] : i \in 1..Len(Alphabet)}

\* ord(c), as the position of c in Alphabet
OrdMap == [c \in Chars |-> CHOOSE i \in 1..Len(Alphabet) : Alphabet[i] = c]

Ord(c) == OrdMap[c]

FirstUpper == Ord("A")
LastUpper == Ord("Z")
CaseShift == Ord("a") - Ord("A")

LowerMap ==
  [c \in Chars |-> IF Ord(c) >= FirstUpper /\ Ord(c) <= LastUpper
                   THEN Alphabet[Ord(c) + CaseShift]
                   ELSE c]

\* str.lower() on one character
LowerChar(c) == LowerMap[c]

\* str.lower()
lower(s) == [i \in 1..Len(s) |-> LowerChar(s[i])]

\* str.endswith
endswith(s, suf) ==
  /\ Len(suf) <= Len(s)
  /\ SubSeq(s, Len(s) - Len(suf) + 1, Len(s)) = suf

\* str.startswith
startswith(s, pre) ==
  /\ Len(pre) <= Len(s)
  /\ SubSeq(s, 1, Len(pre)) = pre

\* the last position <= i of character c in s, 0 when there is none
RECURSIVE rfind_from(_, _, _)
rfind_from(s, c, i) ==
  IF i = 0 THEN 0 ELSE IF s[i] = c THEN i ELSE rfind_from(s, c, i - 1)

\* str.rfind(c), 1-based, 0 when absent
rfind(s, c) == rfind_from(s, c, Len(s))

\* the first position >= i of character c in s, 0 when there is none
RECURSIVE find_from(_, _, _)
find_from(s, c, i) ==
  IF i > Len(s) THEN 0 ELSE IF s[i] = c THEN i ELSE find_from(s, c, i + 1)

\* s < t in Python's string order, given that they agree before position i
RECURSIVE StrLessFrom(_, _, _)
StrLessFrom(s, t, i) ==
  IF i > Len(t) THEN FALSE
  ELSE IF i > Len(s) THEN TRUE
  ELSE IF s[i] # t[i] THEN Ord(s[i]) < Ord(t[i])
  ELSE StrLessFrom(s, t, i + 1)

StrLess(s, t) == StrLessFrom(s, t, 1)

\* sorted(list(S)) for a set of strings
RECURSIVE sorted(_)
sorted(S) ==
  IF S = {} THEN <<>>
  ELSE With(CHOOSE x \in S : \A y \in S : y = x \/ StrLess(x, y),
            LAMBDA m : <<m>> \o sorted(S \ {m}))

\* str(n) for n >= 0
RECURSIVE itoa(_)
itoa(n) ==
  IF n < 10 THEN <<Alphabet[Ord("0") + n]>>
  ELSE itoa(n \div 10) \o <<Alphabet[Ord("0") + (n % 10)]>>

\* str.strip(), for strings whose only white space is the blank
RECURSIVE strip(_)
strip(s) ==
  IF s = <<>> THEN s
  ELSE IF s[1] = " " THEN strip(Tail(s))
  ELSE IF s[Len(s)] = " " THEN strip(SubSeq(s, 1, Len(s) - 1))
  ELSE s

Slash == <<"/">>

\* os.path.basename
basename(p) == SubSeq(p, rfind(p, "/") + 1, Len(p))

\* Path(p).parent, for a path with at least one directory
parent(p) == SubSeq(p, 1, rfind(p, "/") - 1)

\* os.path.join
join(dir, name) == dir \o Slash \o name

\* Path(p).suffix: from the last dot of the final component, unless that dot
\* is its first or its last character
suffix(p) ==
  With(basename(p), LAMBDA name :
  With(rfind(name, "."), LAMBDA i :
    IF 1 < i /\ i < Len(name) THEN SubSeq(name, i, Len(name)) ELSE <<>>))

\* Path(p).stem
stem(p) ==
  With(basename(p), LAMBDA name :
  With(rfind(name, "."), LAMBDA i :
    IF 1 < i /\ i < Len(name) THEN SubSeq(name, 1, i - 1) ELSE name))

\* the path components of a relative path
RECURSIVE components(_)
components(p) ==
  With(find_from(p, "/", 1), LAMBDA i :
    IF i = 0 THEN <<p>>
    ELSE <<SubSeq(p, 1, i - 1)>> \o components(SubSeq(p, i + 1, Len(p))))

----------------------------------------------------------------------------
(* Configuration *)

UPLOAD_DIR == <<"u", "p", "l", "o", "a", "d", "s">>

ALLOWED_AUDIO_EXTS ==
  << <<".", "w", "a", "v">>, <<".", "m", "p", "3">>, <<".", "o", "g", "g">>,
     <<".", "f", "l", "a", "c">>, <<".", "m", "4", "a">>, <<".", "w", "a", "v">> >>

ZipExt == <<".", "z", "i", "p">>

MacPrefix == <<"_", "_", "M", "A", "C", "O", "S", "X", "/">>

\* the working directory of the process
CWD == <<"/", "w">>

\* os.path.abspath, for paths without "." and ".." components
abspath(p) == IF startswith(p, Slash) THEN p ELSE CWD \o Slash \o p

\* any(s.endswith(ext) for ext in ALLOWED_AUDIO_EXTS)
HasAudioExt(s) ==
  \E i \in 1..Len(ALLOWED_AUDIO_EXTS) : endswith(s, ALLOWED_AUDIO_EXTS[i])

----------------------------------------------------------------------------
(* File system *)

\* os.path.isfile
isfile(f, p) == abspath(p) \in DOMAIN f.files

\* os.path.isdir: a directory below the upload folder, the upload folder
\* itself (os.makedirs at start-up) or a directory above it
isdir(f, p) ==
  With(abspath(p), LAMBDA a :
    \/ a \in f.dirs
    \/ startswith(abspath(UPLOAD_DIR) \o Slash, a \o Slash))

\* Path.exists: true for a file and for a directory
exists(f, p) == isfile(f, p) \/ isdir(f, p)

\* open(p, "wb").write(data), for a path that is no directory
WriteFile(f, p, data) ==
  With(abspath(p), LAMBDA a :
    [f EXCEPT !.files = [q \in DOMAIN f.files \cup {a} |->
                           IF q = a THEN data ELSE f.files[q]]])

\* os.remove inside try/except: removes a file, raises on anything else
RemoveFile(f, p) ==
  [f EXCEPT !.files = [q \in DOMAIN f.files \ {abspath(p)} |-> f.files[q]]]

RECURSIVE unique_loop(_, _, _, _)
unique_loop(f, base, p, counter) ==
  IF exists(f, p)
  THEN unique_loop(f, base,
                   join(parent(base), stem(base) \o <<"_">> \o itoa(counter) \o suffix(base)),
                   counter + 1)
  ELSE p

unique_path(f, target_path) == unique_loop(f, target_path, target_path, 1)

\* save_uploaded_file: the pair of the new file system and dest_path
save_uploaded_file(f, up, dest_dir) ==
  With(unique_path(f, join(dest_dir, basename(up.name))), LAMBDA dest_path :
    [fs |-> WriteFile(f, dest_path, up.data), path |-> dest_path])

----------------------------------------------------------------------------
(* Catalog: the rows of table voices in insertion order, without the id *)

Row(name, file_path) == [name |-> name, filename |-> file_path]

\* SELECT 1 FROM voices WHERE filename = ?
file_registered_in_db(cat, file_path) ==
  \E i \in 1..Len(cat) : cat[i].filename = file_path

\* INSERT with no conflict clause on a table without the UNIQUE constraint
save_voice_always(cat, name, file_path) == Append(cat, Row(name, file_path))

\* INSERT OR IGNORE under filename UNIQUE
save_voice(cat, name, file_path) ==
  IF \E i \in 1..Len(cat) : cat[i].filename = file_path
  THEN cat
  ELSE Append(cat, Row(name, file_path))

\* SELECT name, filename FROM voices
get_all_db_rows(cat) == cat

\* SQLite's LIKE from position i of the pattern and position j of the text:
\* % matches any run of characters, _ any one character, every other
\* character itself without regard to ASCII case
RECURSIVE like_from(_, _, _, _)
like_from(pat, i, s, j) ==
  IF i > Len(pat) THEN j > Len(s)
  ELSE IF pat[i] = "%" THEN \E k \in j..(Len(s) + 1) : like_from(pat, i + 1, s, k)
  ELSE IF j > Len(s) THEN FALSE
  ELSE IF pat[i] = "_" THEN like_from(pat, i + 1, s, j + 1)
  ELSE LowerChar(pat[i]) = LowerChar(s[j]) /\ like_from(pat, i + 1, s, j + 1)

\* s LIKE pat
like(s, pat) == like_from(pat, 1, s, 1)

\* SELECT ... WHERE name LIKE ? with the parameter f"%{name}%"
get_voices_by_name(cat, name) ==
  SelectSeq(cat, LAMBDA r : like(r.name, <<"%">> \o name \o <<"%">>))

\* DELETE FROM voices
clear_db(cat) == <<>>

----------------------------------------------------------------------------
(* Scanning the upload folder *)

\* the path of an absolute path relative to the working directory
relpath(a) == SubSeq(a, Len(CWD) + 2, Len(a))

\* glob's rule for one path component matched by a wildcard: no leading dot
NotHidden(c) == ~startswith(c, <<".">>)

\* whether "uploads/**/*" reaches the relative path rel: it lies under
\* UPLOAD_DIR and no directory and no file name on the way is a dot name
GlobReaches(rel) ==
  /\ startswith(rel, UPLOAD_DIR \o Slash)
  /\ With(components(SubSeq(rel, Len(UPLOAD_DIR) + 2, Len(rel))), LAMBDA cs :
       \A i \in 1..Len(cs) : NotHidden(cs[i]))

\* whether the file name matches "*<ext>" for one of the extensions: fnmatch
\* on POSIX compares case-sensitively
GlobExt(rel) ==
  With(basename(rel), LAMBDA name :
    \E i \in 1..Len(ALLOWED_AUDIO_EXTS) : endswith(name, ALLOWED_AUDIO_EXTS[i]))

\* scan_uploads_for_audio: glob returns the files and the directories whose
\* path matches
scan_uploads_for_audio(f) ==
  sorted({abspath(relpath(a)) : a \in
            {b \in DOMAIN f.files \cup f.dirs :
               With(relpath(b), LAMBDA rel : GlobReaches(rel) /\ GlobExt(rel))}})

\* the loop of sync_uploads_to_db from position i on
RECURSIVE sync_loop(_, _, _, _)
sync_loop(files, i, cat, count) ==
  IF i > Len(files) THEN [cat |-> cat, count |-> count]
  ELSE IF ~file_registered_in_db(cat, files[i])
  THEN sync_loop(files, i + 1, save_voice(cat, stem(files[i]), files[i]), count + 1)
  ELSE sync_loop(files, i + 1, cat, count)

\* a reconcile that also drops the rows whose file is gone
sync_pruning(f, cat) ==
  sync_loop(scan_uploads_for_audio(f), 1,
            SelectSeq(cat, LAMBDA r : exists(f, r.filename)), 0)

\* a reconcile that counts every scanned file
sync_counting_all(f, cat) ==
  With(scan_uploads_for_audio(f), LAMBDA files :
    [cat |-> sync_loop(files, 1, cat, 0).cat, count |-> Len(files)])

\* sync_uploads_to_db: the new catalog and the returned count
sync_uploads_to_db(f, cat) == sync_loop(scan_uploads_for_audio(f), 1, cat, 0)

----------------------------------------------------------------------------
(* Ingestion *)

\* the body of the loop over z.namelist() from position i on; a member is
\* [member, readable, data], readable = z.read(member) does not raise
RECURSIVE extract_loop(_, _, _, _, _)
extract_loop(f, members, i, dest_dir, saved) ==
  IF i > Len(members) THEN [fs |-> f, saved |-> saved]
  ELSE With(members[i], LAMBDA m :
       With(basename(m.member), LAMBDA name :
         IF endswith(m.member, Slash) \/ startswith(m.member, MacPrefix)
         THEN extract_loop(f, members, i + 1, dest_dir, saved)
         ELSE IF name = <<>>
         THEN extract_loop(f, members, i + 1, dest_dir, saved)
         ELSE IF HasAudioExt(lower(name))
         THEN IF m.readable
              THEN With(unique_path(f, join(dest_dir, name)), LAMBDA dest_path :
                     extract_loop(WriteFile(f, dest_path, m.data), members, i + 1,
                                  dest_dir, Append(saved, dest_path)))
              ELSE extract_loop(f, members, i + 1, dest_dir, saved)
         ELSE extract_loop(f, members, i + 1, dest_dir, saved)))

\* extract_audio_from_zip on an archive zipfile.ZipFile can open
extract_audio_from_zip(f, up, dest_dir) == extract_loop(f, up.members, 1, dest_dir, <<>>)

\* the loop "for up in uploaded" from position i on; raised = an exception
\* left the loop (zipfile.ZipFile raised on an archive it cannot open)
RECURSIVE upload_loop(_, _, _, _)
upload_loop(f, uploaded, i, saved_all) ==
  IF i > Len(uploaded) THEN [fs |-> f, saved_all |-> saved_all, raised |-> FALSE]
  ELSE With(uploaded[i], LAMBDA up :
         IF endswith(lower(up.name), ZipExt)
         THEN With(save_uploaded_file(f, up, UPLOAD_DIR), LAMBDA tmp :
                IF ~up.valid
                THEN [fs |-> tmp.fs, saved_all |-> saved_all, raised |-> TRUE]
                ELSE With(extract_audio_from_zip(tmp.fs, up, UPLOAD_DIR), LAMBDA ex :
                       upload_loop(RemoveFile(ex.fs, tmp.path), uploaded, i + 1,
                                   saved_all \o ex.saved)))
         ELSE With(save_uploaded_file(f, up, UPLOAD_DIR), LAMBDA sv :
                upload_loop(sv.fs, uploaded, i + 1, Append(saved_all, sv.path))))

\* the loop "for path in saved_all" from position i on
RECURSIVE register_loop(_, _, _, _, _)
register_loop(f, saved_all, i, cat, registered) ==
  IF i > Len(saved_all) THEN [cat |-> cat, registered |-> registered]
  ELSE With(saved_all[i], LAMBDA path :
         IF isfile(f, path) /\ HasAudioExt(lower(path))
         THEN register_loop(f, saved_all, i + 1,
                            save_voice(cat, stem(path), abspath(path)), registered + 1)
         ELSE register_loop(f, saved_all, i + 1, cat, registered))

----------------------------------------------------------------------------
(* Comparison and ranking *)

\* the value load_mfcc_mean and compare_voice return for "no result"
None == -1

\* load_mfcc_mean: None when path is no file, or a file that is undecodable
\* or too short
load_mfcc_mean(f, path) ==
  With(abspath(path), LAMBDA a :
    IF a \in DOMAIN f.files /\ f.files[a] > 0 THEN f.files[a] ELSE None)

\* float(np.linalg.norm(v1 - v2))
norm(v1, v2) == IF v1 >= v2 THEN v1 - v2 ELSE v2 - v1

\* compare_voice
compare_voice(f, query_path, candidate_path) ==
  With(load_mfcc_mean(f, query_path), LAMBDA v1 :
  With(load_mfcc_mean(f, candidate_path), LAMBDA v2 :
    IF v1 = None \/ v2 = None THEN None ELSE norm(v1, v2)))

\* the dict comprehension {abspath(path): name for name, path in rows}: keys
\* in order of first insertion, each with the name written last
RECURSIVE dict_keys(_, _, _)
dict_keys(rows, i, keys) ==
  IF i > Len(rows) THEN keys
  ELSE IF \E k \in 1..Len(keys) : keys[k] = abspath(rows[i].filename)
  THEN dict_keys(rows, i + 1, keys)
  ELSE dict_keys(rows, i + 1, Append(keys, abspath(rows[i].filename)))

dict_value(rows, key) ==
  With({i \in 1..Len(rows) : abspath(rows[i].filename) = key}, LAMBDA hits :
    rows[CHOOSE i \in hits : \A j \in hits : j <= i].name)

\* [(n, p) for p, n in combined.items()]
combine(rows) ==
  With(dict_keys(rows, 1, <<>>), LAMBDA keys :
    [k \in 1..Len(keys) |-> Row(dict_value(rows, keys[k]), keys[k])])

\* [(Path(f).stem, f) for f in files]
folder_rows(files) == [i \in 1..Len(files) |-> Row(stem(files[i]), files[i])]

\* candidate assembly, given the file system that holds the query file
assemble(f, cat, match_mode) ==
  With(IF match_mode \in {"Database", "Both"} THEN get_all_db_rows(cat) ELSE <<>>,
       LAMBDA c1 :
         IF match_mode \in {"Uploads folder", "Both"}
         THEN combine(c1 \o folder_rows(scan_uploads_for_audio(f)))
         ELSE c1)

\* a comparison loop that keeps the failed comparisons, at distance 0
RECURSIVE compare_loop_keep_none(_, _, _, _, _)
compare_loop_keep_none(f, query_path, candidates, i, results) ==
  IF i > Len(candidates) THEN results
  ELSE With(compare_voice(f, query_path, candidates[i].filename), LAMBDA dist :
         compare_loop_keep_none(f, query_path, candidates, i + 1,
                                Append(results, [name |-> candidates[i].name,
                                                 path |-> candidates[i].filename,
                                                 dist |-> IF dist = None THEN 0 ELSE dist])))

\* the comparison loop from position i on
RECURSIVE compare_loop(_, _, _, _, _)
compare_loop(f, query_path, candidates, i, results) ==
  IF i > Len(candidates) THEN results
  ELSE With(compare_voice(f, query_path, candidates[i].filename), LAMBDA dist :
         IF dist # None
         THEN compare_loop(f, query_path, candidates, i + 1,
                           Append(results, [name |-> candidates[i].name,
                                            path |-> candidates[i].filename,
                                            dist |-> dist]))
         ELSE compare_loop(f, query_path, candidates, i + 1, results))

\* insert x behind every element whose distance is not larger
insert_stable(rs, x) ==
  With(Cardinality({i \in 1..Len(rs) : rs[i].dist <= x.dist}), LAMBDA n :
    SubSeq(rs, 1, n) \o <<x>> \o SubSeq(rs, n + 1, Len(rs)))

\* results.sort(key=lambda x: x[2]): stable, ascending
RECURSIVE sort_by_dist(_)
sort_by_dist(rs) ==
  IF rs = <<>> THEN <<>>
  ELSE insert_stable(sort_by_dist(SubSeq(rs, 1, Len(rs) - 1)), rs[Len(rs)])

\* s[:k]
take(s, k) == SubSeq(s, 1, IF k < Len(s) THEN k ELSE Len(s))

\* the threshold policy without the fallback
shown_accepted_only(results, threshold, top_k) ==
  take(SelectSeq(results, LAMBDA r : r.dist <= threshold), top_k)

\* accepted[:top_k] if accepted else results[:top_k]
shown_of(results, threshold, top_k) ==
  With(SelectSeq(results, LAMBDA r : r.dist <= threshold), LAMBDA accepted :
    IF accepted # <<>> THEN take(accepted, top_k) ELSE take(results, top_k))

\* the Match handler up to results.sort(): the file system with the query
\* file written, query_path, candidates and the sorted results
match_rank(f, cat, uploaded_voice, match_mode) ==
  With(save_uploaded_file(f, uploaded_voice, UPLOAD_DIR), LAMBDA sv :
  With(assemble(sv.fs, cat, match_mode), LAMBDA candidates :
    [fs |-> sv.fs,
     query_path |-> sv.path,
     candidates |-> candidates,
     results |-> sort_by_dist(compare_loop(sv.fs, sv.path, candidates, 1, <<>>))]))

\* the list the Match handler shows
match_shown(candidates, results, threshold, top_k) ==
  IF candidates = <<>> \/ results = <<>> THEN <<>>
  ELSE shown_of(results, threshold, top_k)

\* the end of the Match handler: os.remove(query_path), which is not reached
\* when the st.* call that reports the outcome raises (the script run is
\* stopped there)
match_cleanup(f, query_path, interrupted) ==
  IF interrupted THEN f ELSE RemoveFile(f, query_path)

----------------------------------------------------------------------------
(* Inputs *)

a_wav == <<"a", ".", "w", "a", "v">>
z_zip == <<"z", ".", "z", "i", "p">>

\* an uploaded file: its name and bytes; for an archive, whether
\* zipfile.ZipFile can open it, and its entries
Upload(name, data, valid, members) ==
  [name |-> name, data |-> data, valid |-> valid, members |-> members]

Member(member, readable, data) ==
  [member |-> member, readable |-> readable, data |-> data]

\* d/, k.wav (cannot be read), d/b.mp3, r.txt, __MACOSX/x.wav
ZMixed ==
  Upload(z_zip, 0, TRUE,
         << Member(<<"d", "/">>, TRUE, 0),
            Member(<<"k", ".", "w", "a", "v">>, FALSE, 1),
            Member(<<"d", "/", "b", ".", "m", "p", "3">>, TRUE, 2),
            Member(<<"r", ".", "t", "x", "t">>, TRUE, 0),
            Member(MacPrefix \o <<"x", ".", "w", "a", "v">>, TRUE, 1) >>)

\* x/.wav
ZDot ==
  Upload(z_zip, 0, TRUE, << Member(<<"x", "/", ".", "w", "a", "v">>, TRUE, 1) >>)

\* an archive zipfile.ZipFile cannot open
ZCorrupt == Upload(z_zip, 0, FALSE, <<>>)

\* the bytes of an uploaded a.wav: not decodable, or the recording 1
UploadData == {0, 1}

Items == {Upload(a_wav, c, FALSE, <<>>) : c \in UploadData} \cup {ZMixed, ZDot, ZCorrupt}

Batches == UNION {[1..n -> Items] : n \in 1..MaxBatch}

\* the bytes of a query recording: not decodable, the recording 1, or the
\* recording farthest from it
QueryData == {0, 1, MaxContent}

Queries == {Upload(a_wav, c, FALSE, <<>>) : c \in QueryData}

\* the queries of the runs that are stopped before the query file is removed
StoppedQueries == {Upload(a_wav, 1, FALSE, <<>>)}

MatchModes == {"Database", "Uploads folder", "Both"}

TopKs == 1..MaxTopK

Thresholds == {0, MaxContent}

\* a letter in the other case, the LIKE wildcard for one character, a blank
SearchNames == {<<"A">>, <<"_">>, <<" ">>}

\* files put into the upload folder without the application: E.OGG, and
\* c.ogg in a folder named a.wav
DropPaths ==
  { abspath(join(UPLOAD_DIR, <<"E", ".", "O", "G", "G">>)),
    abspath(join(UPLOAD_DIR, a_wav \o <<"/", "c", ".", "o", "g", "g">>)) }

RegisterNames == {<<"a">>, <<"n">>}

RegisterPaths ==
  { abspath(join(UPLOAD_DIR, a_wav)),
    abspath(join(UPLOAD_DIR, <<"n", ".", "m", "p", "3">>)) }

----------------------------------------------------------------------------
(* State *)

\* what the current or the last script run did.  quiet: the upload folder and
\* the catalog were not changed from outside since the last step of a run;
\* disturbed: they were changed between the head of the run and its button;
\* synced: the last step of the run ended with sync_uploads_to_db
NoLast ==
  [op |-> "Start", quiet |-> TRUE, disturbed |-> FALSE, synced |-> FALSE,
   rows_before |-> 0, new_count |-> 0, cat1 |-> <<>>, added |-> 0,
   uploaded |-> <<>>, saved_all |-> <<>>, registered |-> 0, raised |-> FALSE,
   query_path |-> <<>>, query_data |-> 0, match_mode |-> "", top_k |-> 0, threshold |-> 0,
   interrupted |-> FALSE, candidates |-> <<>>, results |-> <<>>, shown |-> <<>>,
   found |-> <<>>, reg |-> <<>>]

CatalogPaths(cat) == {cat[i].filename : i \in 1..Len(cat)}

KnownPaths(f, cat) == DOMAIN f.files \cup CatalogPaths(cat)

\* the model's cap on the number of paths
Within(f, cat) == Cardinality(KnownPaths(f, cat)) <= MaxPaths

\* os.makedirs(UPLOAD_DIR), init_db() on a fresh installation
Init ==
  /\ fs = [files |-> <<>>, dirs |-> {}]
  /\ catalog = <<>>
  /\ pc = "idle"
  /\ last = NoLast

\* the record of the run after the step of button op
Ran(op) ==
  [last EXCEPT !.op = op, !.quiet = TRUE, !.disturbed = ~last.quiet,
               !.synced = FALSE, !.reg = <<>>]

\* the record after a change from outside
Touched == [last EXCEPT !.quiet = FALSE, !.reg = <<>>]

----------------------------------------------------------------------------
(* Script runs *)

\* the head of a script run: new_count = sync_uploads_to_db(), then
\* time.sleep(0.3).  A run started by st.rerun() has no button pressed.
Begin ==
  /\ With(sync_uploads_to_db(fs, catalog), LAMBDA top :
       /\ pc \in {"idle", "rerun"}
       /\ fs' = fs
       /\ catalog' = top.cat
       /\ pc' = IF pc = "idle" THEN "slept" ELSE "rerun_slept"
       /\ last' = [NoLast EXCEPT !.op = "Begin", !.synced = TRUE,
                                 !.rows_before = Len(catalog),
                                 !.new_count = top.count, !.cat1 = top.cat])

\* the rest of a run in which no button is pressed
Load ==
  /\ With(Ran("Load"), LAMBDA r :
       /\ pc \in {"slept", "rerun_slept"}
       /\ fs' = fs
       /\ catalog' = catalog
       /\ pc' = "idle"
       /\ last' = r)

\* "Save uploaded files"
AddData(uploaded) ==
  /\ With(upload_loop(fs, uploaded, 1, <<>>), LAMBDA up :
     With(register_loop(up.fs, up.saved_all, 1, catalog, 0), LAMBDA rg :
       /\ pc = "slept"
       /\ fs' = up.fs
       /\ catalog' = IF up.raised THEN catalog ELSE rg.cat
       /\ pc' = IF up.raised THEN "idle" ELSE "rerun"
       /\ last' = [Ran("AddData") EXCEPT
                     !.uploaded = uploaded, !.saved_all = up.saved_all,
                     !.raised = up.raised,
                     !.registered = IF up.raised THEN 0 ELSE rg.registered]
       /\ Within(fs', catalog')))

\* "Scan & Sync uploads folder to DB now"
ScanSync ==
  /\ With(sync_uploads_to_db(fs, catalog), LAMBDA added :
       /\ pc = "slept"
       /\ fs' = fs
       /\ catalog' = added.cat
       /\ pc' = "rerun"
       /\ last' = [Ran("ScanSync") EXCEPT !.added = added.count, !.synced = TRUE])

\* "Force Sync uploads -> DB"
ForceSync ==
  /\ With(sync_uploads_to_db(fs, catalog), LAMBDA added :
       /\ pc = "slept"
       /\ fs' = fs
       /\ catalog' = added.cat
       /\ pc' = "rerun"
       /\ last' = [Ran("ForceSync") EXCEPT !.added = added.count, !.synced = TRUE])

\* the rows the "Search" button lists: none for a blank search text
search(cat, search_name) ==
  IF strip(search_name) = <<>> THEN <<>>
  ELSE get_voices_by_name(cat, strip(search_name))

\* "Search" by name
Search(search_name) ==
  /\ With(search(catalog, search_name), LAMBDA rows :
       /\ pc = "slept"
       /\ fs' = fs
       /\ catalog' = catalog
       /\ pc' = "idle"
       /\ last' = [Ran("Search") EXCEPT !.found = rows])

\* "Match", with top_k and threshold drawn from top_ks and thresholds
Match(uploaded_voice, match_mode, interrupted, top_ks, thresholds) ==
  /\ With(match_rank(fs, catalog, uploaded_voice, match_mode), LAMBDA m :
     With(match_cleanup(m.fs, m.query_path, interrupted), LAMBDA f2 :
       /\ pc = "slept"
       /\ Within(f2, catalog)
       /\ \E top_k \in top_ks, threshold \in thresholds :
            /\ fs' = f2
            /\ catalog' = catalog
            /\ pc' = "idle"
            /\ last' = [Ran("Match") EXCEPT
                          !.query_path = m.query_path,
                          !.query_data = uploaded_voice.data, !.match_mode = match_mode,
                          !.top_k = top_k, !.threshold = threshold,
                          !.interrupted = interrupted, !.candidates = m.candidates,
                          !.results = m.results,
                          !.shown = match_shown(m.candidates, m.results, threshold, top_k)]))

\* "Clear DB (danger)"
ClearDB ==
  /\ With(clear_db(catalog), LAMBDA cat :
       /\ pc = "slept"
       /\ fs' = fs
       /\ catalog' = cat
       /\ pc' = "rerun"
       /\ last' = Ran("ClearDB"))

\* the file system after the loop "for f in files: os.remove(f)"
RECURSIVE delete_loop(_, _, _)
delete_loop(f, files, i) ==
  IF i > Len(files) THEN f ELSE delete_loop(RemoveFile(f, files[i]), files, i + 1)

\* "Delete all files in uploads/ (danger)"
DeleteAll ==
  /\ With(delete_loop(fs, scan_uploads_for_audio(fs), 1), LAMBDA f2 :
       /\ pc = "slept"
       /\ fs' = f2
       /\ catalog' = catalog
       /\ pc' = "rerun"
       /\ last' = Ran("DeleteAll"))

----------------------------------------------------------------------------
(* The upload folder changed from outside, at any moment between the steps *)

\* the directories between the upload folder and the file a
ancestors(a) ==
  {SubSeq(a, 1, i - 1) :
     i \in {j \in (Len(abspath(UPLOAD_DIR)) + 2)..Len(a) : a[j] = "/"}}

\* a file is copied into the upload folder, with the folders on its way
Drop(p, data) ==
  /\ ~exists(fs, p)
  /\ \A d \in ancestors(p) : ~isfile(fs, d)
  /\ fs' = [files |-> WriteFile(fs, p, data).files, dirs |-> fs.dirs \cup ancestors(p)]
  /\ catalog' = catalog
  /\ pc' = pc
  /\ last' = Touched
  /\ Within(fs', catalog')

\* a file of the upload folder is removed
Disappear(p) ==
  /\ isfile(fs, p)
  /\ fs' = RemoveFile(fs, p)
  /\ catalog' = catalog
  /\ pc' = pc
  /\ last' = Touched

\* a direct call save_voice(name, file_path)
Register(name, file_path) ==
  /\ fs' = fs
  /\ catalog' = save_voice(catalog, name, file_path)
  /\ pc' = pc
  /\ last' = [last EXCEPT !.quiet = FALSE, !.reg = <<Row(name, file_path)>>]
  /\ Within(fs', catalog')

----------------------------------------------------------------------------
(* Specifications *)

Next ==
  \/ Begin
  \/ Load
  \/ \E uploaded \in Batches : AddData(uploaded)
  \/ ScanSync
  \/ ForceSync
  \/ \E search_name \in SearchNames : Search(search_name)
  \/ \E q \in Queries, mode \in MatchModes : Match(q, mode, FALSE, TopKs, Thresholds)
  \/ \E q \in StoppedQueries, mode \in MatchModes : Match(q, mode, TRUE, {1}, {0})
  \/ ClearDB
  \/ DeleteAll
  \/ \E p \in DropPaths : Drop(p, 1)
  \/ \E p \in DOMAIN fs.files : Disappear(p)

Spec == Init /\ [][Next]_vars

\* the operations on the catalog and the upload folder, with direct calls of
\* save_voice
NextReg ==
  \/ \E name \in RegisterNames, p \in RegisterPaths : Register(name, p)
  \/ Begin
  \/ Load
  \/ \E uploaded \in Batches : AddData(uploaded)
  \/ ForceSync
  \/ ClearDB
  \/ DeleteAll
  \/ \E p \in DropPaths : Drop(p, 1)
  \/ \E p \in DOMAIN fs.files : Disappear(p)

SpecReg == Init /\ [][NextReg]_vars

----------------------------------------------------------------------------
(* Properties *)

RowsFor(cat, a) == {i \in 1..Len(cat) : cat[i].filename = a}

\* an audio file in the sense of the extension policy: the base name ends,
\* case-insensitively, in one of the supported extensions
IsAudioFile(a) == HasAudioExt(lower(basename(a)))

Min(a, b) == IF a <= b THEN a ELSE b

\* C1: the catalog never holds two rows with one path; a direct save_voice
\* with a path that is already present leaves the catalog as it was, and with
\* a new path appends exactly that row, so a call adds at most one row.
C1_OneRowPerPath ==
  [][ /\ \A a \in CatalogPaths(catalog') : Cardinality(RowsFor(catalog', a)) = 1
      /\ last'.reg # <<>> =>
           IF RowsFor(catalog, last'.reg[1].filename) # {}
           THEN catalog' = catalog
           ELSE catalog' = Append(catalog, last'.reg[1]) ]_vars

\* C1 witness: save_voice was called with a path that has a row under
\* another name, and that row is still the only one for the path
C1_Witness ==
  /\ last.reg # <<>>
  /\ \E i \in 1..Len(catalog) :
        /\ catalog[i].filename = last.reg[1].filename
        /\ catalog[i].name # last.reg[1].name

\* C2: right after sync_uploads_to_db, every audio file under the upload
\* folder has exactly one catalog row keyed by its absolute path.
C2_EveryAudioFileHasRow ==
  (last.synced /\ last.quiet) =>
     \A a \in DOMAIN fs.files :
        IsAudioFile(a) => Cardinality(RowsFor(catalog, a)) = 1

\* C3: the count a sync returns is the number of rows it added, and a second
\* sync with no change of the folder in between returns 0 and leaves the
\* catalog as the first one left it.
C3_ReconcileIdempotent ==
  /\ last.op = "Begin" =>
        /\ last.new_count = Len(catalog) - last.rows_before
        /\ last.quiet => sync_uploads_to_db(fs, catalog) = [cat |-> catalog, count |-> 0]
  /\ last.op \in {"ScanSync", "ForceSync"} =>
        /\ last.added = Len(catalog) - Len(last.cat1)
        /\ ~last.disturbed =>
              /\ last.added = 0
              /\ catalog = last.cat1

\* C3 witness: a sync button was pressed when files were not yet registered:
\* the first sync added rows and the second returned 0
C3_Witness ==
  /\ last.op = "ForceSync"
  /\ ~last.disturbed
  /\ last.new_count >= 1
  /\ last.added = 0
  /\ Len(catalog) = last.rows_before + last.new_count

\* the number of results whose distance is within the threshold
Passing == Cardinality({i \in 1..Len(last.results) :
                          last.results[i].dist <= last.threshold})

\* C4: the shown list is the first top_k of the sorted results whose distance
\* is at most the threshold, and the first top_k of all sorted results when no
\* distance is.
C4_ThresholdPolicy ==
  (last.op = "Match" /\ last.results # <<>>) =>
     /\ \A i \in 1..(Len(last.results) - 1) :
           last.results[i].dist <= last.results[i + 1].dist
     /\ last.shown =
          SubSeq(last.results, 1,
                 Min(last.top_k, IF Passing > 0 THEN Passing ELSE Len(last.results)))

\* C4 witness: threshold 0, two results at distances 1 and 2, none within the
\* threshold, both shown in that order
C4_Witness ==
  /\ last.op = "Match"
  /\ last.threshold = 0
  /\ Len(last.shown) = 2
  /\ last.shown[1].dist = 1
  /\ last.shown[2].dist = 2

\* the file system the comparisons of the last match read: with the query file
MatchFs == WriteFile(fs, last.query_path, last.query_data)

\* the candidates of the last match whose comparison is not None
ValidCandidates ==
  {i \in 1..Len(last.candidates) :
     /\ last.query_data > 0
     /\ last.candidates[i].filename \in DOMAIN MatchFs.files
     /\ MatchFs.files[last.candidates[i].filename] > 0}

\* the position of a result in the candidate list
CandidateIndex(r) ==
  CHOOSE i \in 1..Len(last.candidates) :
     last.candidates[i].filename = r.path /\ last.candidates[i].name = r.name

\* C5: when no distance exceeds the threshold, the shown list has
\* min(top_k, number of candidates whose comparison is not None) entries, in
\* non-decreasing order of distance, equal distances in candidate order; every
\* entry is a valid candidate with its distance, and the list is the closest
\* ones; no candidates, no entries.
C5_RankAll ==
  (last.op = "Match" /\ last.quiet /\ \A i \in 1..Len(last.results) :
                           last.results[i].dist <= last.threshold) =>
     /\ Len(last.shown) = Min(last.top_k, Cardinality(ValidCandidates))
     /\ Len(last.results) = Cardinality(ValidCandidates)
     /\ \A i \in 1..Len(last.shown) :
           /\ \E c \in ValidCandidates :
                 /\ last.candidates[c].filename = last.shown[i].path
                 /\ last.candidates[c].name = last.shown[i].name
           /\ last.shown[i].dist =
                norm(last.query_data, MatchFs.files[last.shown[i].path])
           /\ last.shown[i] = last.results[i]
     /\ \A i, j \in 1..Len(last.results) :
           i < j =>
              \/ last.results[i].dist < last.results[j].dist
              \/ /\ last.results[i].dist = last.results[j].dist
                 /\ CandidateIndex(last.results[i]) < CandidateIndex(last.results[j])

\* C5 witness: three candidates, one of them gone from disk, the two others
\* shown, the later candidate first because it is closer
C5_Witness ==
  /\ last.op = "Match"
  /\ last.quiet
  /\ last.threshold >= 1
  /\ Len(last.candidates) = 3
  /\ Cardinality(ValidCandidates) = 2
  /\ \E i \in 1..3 : ~exists(MatchFs, last.candidates[i].filename)
  /\ Len(last.shown) = 2
  /\ CandidateIndex(last.shown[1]) > CandidateIndex(last.shown[2])

\* C6: an ingest that runs to its end writes every item to a path that did
\* not exist, leaves every file that was there as it was, and every stored
\* path has its own catalog row, at the latest after the sync of the run
\* that st.rerun() starts.
C6_IngestNeverOverwrites ==
  [][ (last.op = "Begin" /\ last'.op = "AddData" /\ ~last'.raised) =>
        /\ \A i \in 1..Len(last'.saved_all) :
              /\ ~exists(fs, last'.saved_all[i])
              /\ isfile(fs', last'.saved_all[i])
              /\ \A j \in 1..Len(last'.saved_all) :
                    last'.saved_all[i] = last'.saved_all[j] => i = j
        /\ \A a \in DOMAIN fs.files :
              a \in DOMAIN fs'.files /\ fs'.files[a] = fs.files[a]
        /\ \A i \in 1..Len(last'.saved_all) :
              Cardinality(RowsFor(sync_uploads_to_db(fs', catalog').cat,
                                  abspath(last'.saved_all[i]))) = 1 ]_vars

\* C7: a step that is not the one of "Clear DB", and a change of the folder
\* from outside, keep every catalog row, in place and unchanged.
C7_RowsOnlyCleared ==
  [][ ~(last.op = "Begin" /\ last'.op = "ClearDB") =>
        /\ Len(catalog) <= Len(catalog')
        /\ SubSeq(catalog', 1, Len(catalog)) = catalog ]_vars

\* C7 witness: after a forced sync the catalog still holds a row whose file
\* is gone from disk
C7_Witness ==
  /\ last.op = "ForceSync"
  /\ last.quiet
  /\ \E i \in 1..Len(catalog) : ~exists(fs, catalog[i].filename)

\* C8: after a match, however it ended, the query file is gone.
C8_QueryFileRemoved ==
  (last.op = "Match" /\ last.quiet) => ~exists(fs, last.query_path)

\* whether entry m of an archive is one the ingestion is to store
Wanted(m) ==
  /\ ~endswith(m.member, Slash)
  /\ ~startswith(m.member, MacPrefix)
  /\ IsAudioFile(m.member)
  /\ m.readable

\* the number of files an upload is to store: a plain file itself, an archive
\* its readable audio entries, an archive that cannot be opened nothing
Expected(up) ==
  IF ~endswith(lower(up.name), ZipExt) THEN 1
  ELSE IF ~up.valid THEN 0
  ELSE Cardinality({i \in 1..Len(up.members) : Wanted(up.members[i])})

RECURSIVE ExpectedAll(_)
ExpectedAll(uploaded) ==
  IF uploaded = <<>> THEN 0
  ELSE Expected(uploaded[1]) + ExpectedAll(Tail(uploaded))

\* whether the batch holds an archive that cannot be opened or an entry that
\* cannot be read
HasFailure(uploaded) ==
  \E i \in 1..Len(uploaded) :
     /\ endswith(lower(uploaded[i].name), ZipExt)
     /\ \/ ~uploaded[i].valid
        \/ \E k \in 1..Len(uploaded[i].members) : ~uploaded[i].members[k].readable

\* C9: after an ingest of a batch with such a failure, everything else of the
\* batch is stored in the upload folder and registered in the catalog.
C9_FailuresIsolated ==
  (last.op = "AddData" /\ last.quiet /\ HasFailure(last.uploaded)) =>
     /\ Len(last.saved_all) = ExpectedAll(last.uploaded)
     /\ \A i \in 1..Len(last.saved_all) :
           /\ isfile(fs, last.saved_all[i])
           /\ RowsFor(catalog, abspath(last.saved_all[i])) # {}

\* C10: the query file of a match is no candidate and no result of it.
C10_QueryNotCandidate ==
  last.op = "Match" =>
     /\ \A i \in 1..Len(last.candidates) :
           abspath(last.candidates[i].filename) # abspath(last.query_path)
     /\ \A i \in 1..Len(last.shown) :
           abspath(last.shown[i].path) # abspath(last.query_path)

====
